---- MODULE Spec2Model ----
(***************************************************************************)
(* Model of hydrolib/dhydamo/io/common.py:                                 *)
(*   - the point-grouping routine of ExtendedGeoDataFrame.read_gpkg_layer  *)
(*     (specification SpecGroup),                                          *)
(*   - ExtendedGeoDataFrame.set_data / clip / delete_all (SpecGeo),        *)
(*   - ExtendedDataFrame.set_data / add_data / delete_all (SpecDf).        *)
(***************************************************************************)
EXTENDS Integers, Sequences, FiniteSets

VARIABLES
    \* ---- read_gpkg_layer (grouping of points to lines)
    layer,       \* the table read from the layer: rows [branch, volgnr]; the
                 \* geometry of row i is the point i (points are 1, 2, ...)
    pc,          \* position of read_gpkg_layer in its code
    lines,       \* dict lines: branch -> list of points / placeholders
    startnr,     \* dict startnr: branch -> starting number
    order_rel,   \* list order_rel (0-based positions, as in the code)
    reported,    \* branches for which the "not properly assigned" line was printed
    features,    \* rows of fields with their geometries (the frame that is built)
    err,         \* exception that ended the call, or "none"
    \* ---- ExtendedGeoDataFrame
    gcols,       \* columns of the frame
    grows,       \* rows of the frame, in order
    gname,       \* self.index.name
    gcall,       \* the last call made on the frame and its arguments
    gres,        \* how that call ended: "ok" or the exception raised
    \* ---- ExtendedDataFrame
    dcols,       \* columns of the frame
    drows,       \* rows of the frame, in order
    dname,       \* self.index.name
    dcall,       \* the last call made on the frame and its arguments
    dres         \* how that call ended: "ok" or the exception raised

gvars == <<layer, pc, lines, startnr, order_rel, reported, features, err>>

fvars == <<gcols, grows, gname, gcall, gres>>

dvars == <<dcols, drows, dname, dcall, dres>>

vars == <<gvars, fvars, dvars>>

\* ------------------------------------------------------------------ bounds
MaxRows == 4

\* branch identifiers (np.unique returns them in ascending order)
Branches == {1, 2}

\* order values that occur in a table: 0, a run 1, 2, and a run 5, 6 after a
\* gap; 5 and 6 lie beyond layer.shape[0] + 1 for a table of up to three rows
Orders == {0, 1, 2, 5, 6}

\* the placeholder [0] * count puts in a line (isinstance(pt, int))
Placeholder == 0

Rows == [branch : Branches, volgnr : Orders]

Tables == UNION {[1..n -> Rows] : n \in 1..MaxRows}

\* rows of a frame handed to set_data or add_data
MaxFrameRows == 2

\* rows an ExtendedDataFrame grows to by add_data
MaxTotalRows == 4

\* ------------------------------------------------------------------ helpers
Min2(a, b) == IF a <= b THEN a ELSE b

RECURSIVE SelectIdx(_, _, _)
\* the indexes i >= k of seq s, ascending, for which keep[i] holds
SelectIdx(s, k, keep) ==
    IF k > Len(s) THEN <<>>
    ELSE (IF keep[k] THEN <<k>> ELSE <<>>) \o SelectIdx(s, k + 1, keep)

\* rows of the table that carry branch b, in table order
RowsOf(tab, b) == SelectIdx(tab, 1, [i \in 1..Len(tab) |-> tab[i].branch = b])

\* np.unique(groupbyvalues, return_counts=True)
branchesOf(tab) == {tab[i].branch : i \in 1..Len(tab)}
countOf(tab, b) == Len(RowsOf(tab, b))

\* lines = {branch: [0] * count ...}
InitLines(tab) ==
    [b \in branchesOf(tab) |-> [k \in 1..countOf(tab, b) |-> Placeholder]]

RECURSIVE StartnrFrom(_, _, _)
\* for branch, volgnr in zip(groupbyvalues, order): startnr[branch] = min(...)
StartnrFrom(tab, k, st) ==
    IF k > Len(tab) THEN st
    ELSE StartnrFrom(tab, k + 1,
            [st EXCEPT ![tab[k].branch] = Min2(tab[k].volgnr, st[tab[k].branch])])

\* startnr = {branch: layer.shape[0] + 1 ...} followed by the min loop
FindStartnr(tab) ==
    StartnrFrom(tab, 1, [b \in branchesOf(tab) |-> Len(tab) + 1])

RECURSIVE Insert(_, _)
Insert(x, s) ==
    IF s = <<>> THEN <<x>>
    ELSE IF x <= Head(s) THEN <<x>> \o s
    ELSE <<Head(s)>> \o Insert(x, Tail(s))

RECURSIVE SortSeqFrom(_, _)
SortSeqFrom(s, acc) ==
    IF s = <<>> THEN acc ELSE SortSeqFrom(Tail(s), Insert(Head(s), acc))

\* the list left as it is: the sort forgotten
SortSeqNone(s) == s

\* lst_volgnr.sort()
SortSeq(s) == SortSeqFrom(s, <<>>)

\* lst_volgnr = [x[1] for x in zip(groupbyvalues, order) if x[0] == branch]
LstVolgnr(tab, b) ==
    LET r == RowsOf(tab, b) IN SortSeq([k \in 1..Len(r) |-> tab[r[k]].volgnr])

RECURSIVE Matches(_, _, _)
\* for i, x in enumerate(lst_volgnr): if volgnr == x: order_rel.append(i)
Matches(lst, k, volgnr) ==
    IF k > Len(lst) THEN <<>>
    ELSE (IF lst[k] = volgnr THEN <<k - 1>> ELSE <<>>) \o Matches(lst, k + 1, volgnr)

RECURSIVE OrderRelFrom(_, _)
OrderRelFrom(tab, k) ==
    IF k > Len(tab) THEN <<>>
    ELSE Matches(LstVolgnr(tab, tab[k].branch), 1, tab[k].volgnr)
            \o OrderRelFrom(tab, k + 1)

\* the loop that fills order_rel
RelativeOrder(tab) == OrderRelFrom(tab, 1)

RECURSIVE AssignFrom(_, _, _, _)
\* for point, volgnr, branch, volgnr_rel in zip(layer.geometry, order,
\*     groupbyvalues, order_rel): lines[branch][volgnr_rel] = point
\* zip stops at the shortest of its arguments; a position beyond the end of
\* the branch's list raises IndexError and leaves the earlier assignments.
AssignFrom(tab, rel, k, ls) ==
    IF k > Len(tab) \/ k > Len(rel) THEN [lines |-> ls, err |-> "none"]
    ELSE LET b == tab[k].branch IN
         IF rel[k] >= Len(ls[b]) THEN [lines |-> ls, err |-> "IndexError"]
         ELSE AssignFrom(tab, rel, k + 1, [ls EXCEPT ![b][rel[k] + 1] = k])

AssignPoints(tab, rel, ls) == AssignFrom(tab, rel, 1, ls)

\* [pt for pt in lines[branch] if not isinstance(pt, int)]
Placed(line) == SelectSeq(line, LAMBDA pt : pt # Placeholder)

HasPlaceholder(line) == \E k \in 1..Len(line) : line[k] = Placeholder

RECURSIVE GroupFrom(_, _, _, _)
\* for branch in branches[~singlepoint]: ... lines[branch] = LineString(...)
\* branches are visited in ascending order; LineString raises for a list of
\* exactly one point, which ends the call at that branch.
GroupFrom(tab, todo, ls, rep) ==
    IF todo = {} THEN [lines |-> ls, reported |-> rep, err |-> "none"]
    ELSE LET b == CHOOSE x \in todo : \A y \in todo : x <= y
             flag == HasPlaceholder(ls[b])
             rep2 == IF flag THEN rep \cup {b} ELSE rep
             pts == IF flag THEN Placed(ls[b]) ELSE ls[b]
         IN  IF Len(pts) = 1
             THEN [lines |-> [ls EXCEPT ![b] = pts], reported |-> rep2,
                   err |-> "LineStringError"]
             ELSE GroupFrom(tab, todo \ {b}, [ls EXCEPT ![b] = pts], rep2)

\* singlepoint = counts < 2
SinglePoint(tab) == {b \in branchesOf(tab) : countOf(tab, b) < 2}

GroupLines(tab, ls) == GroupFrom(tab, branchesOf(tab) \ SinglePoint(tab), ls, {})

\* idx = [nr for nr, (i, volgnr) in enumerate(zip(order, startnrs)) if i == volgnr]
FieldIdx(tab, st) ==
    SelectIdx(tab, 1, [i \in 1..Len(tab) |-> tab[i].volgnr = st[tab[i].branch]])

\* fields = layer.iloc[idx, :]; geometries = [lines[row[columnid]] ...]
ReadFields(tab, st, ls) ==
    LET idx == FieldIdx(tab, st)
    IN  [k \in 1..Len(idx) |->
            [row |-> idx[k], branch |-> tab[idx[k]].branch,
             geometry |-> ls[tab[idx[k]].branch]]]

\* ------------------------------------------------------------------ read_gpkg_layer
NoCall == [op |-> "none"]

\* ExtendedGeoDataFrame(geotype=Point, required_columns=["code"])
GeoType == "Point"
RequiredColumns == {"code"}

\* ExtendedDataFrame(required_columns=["code"])
DfRequiredColumns == {"code"}

\* read_gpkg_layer is entered with a table of points; the frames are as built
GInit ==
    /\ layer \in Tables
    /\ pc = "prepare"
    /\ lines = <<>>
    /\ startnr = <<>>
    /\ order_rel = <<>>
    /\ reported = {}
    /\ features = <<>>
    /\ err = "none"
    /\ gcols = RequiredColumns
    /\ grows = <<>>
    /\ gname = "None"
    /\ gcall = NoCall
    /\ gres = "ok"
    /\ dcols = {}
    /\ drows = <<>>
    /\ dname = "None"
    /\ dcall = NoCall
    /\ dres = "ok"

\* ExtendedGeoDataFrame.__init__: the required columns, no rows, no geometry
\* column; ExtendedDataFrame.__init__: no columns, no rows; no layer is read
FInit ==
    /\ layer = <<>>
    /\ pc = "idle"
    /\ lines = <<>>
    /\ startnr = <<>>
    /\ order_rel = <<>>
    /\ reported = {}
    /\ features = <<>>
    /\ err = "none"
    /\ gcols = RequiredColumns
    /\ grows = <<>>
    /\ gname = "None"
    /\ gcall = NoCall
    /\ gres = "ok"
    /\ dcols = {}
    /\ drows = <<>>
    /\ dname = "None"
    /\ dcall = NoCall
    /\ dres = "ok"

\* lines, startnr and order_rel are computed from the table (no step can raise)
Prepare ==
    /\ pc = "prepare"
    /\ lines' = InitLines(layer)
    /\ startnr' = FindStartnr(layer)
    /\ order_rel' = RelativeOrder(layer)
    /\ pc' = "assign"
    /\ UNCHANGED <<layer, reported, features, err, fvars, dvars>>

Assign ==
    /\ pc = "assign"
    /\ LET r == AssignPoints(layer, order_rel, lines) IN
        /\ lines' = r.lines
        /\ err' = r.err
        /\ pc' = IF r.err = "none" THEN "group" ELSE "raised"
    /\ UNCHANGED <<layer, startnr, order_rel, reported, features, fvars, dvars>>

Group ==
    /\ pc = "group"
    /\ LET r == GroupLines(layer, lines) IN
        /\ lines' = r.lines
        /\ reported' = r.reported
        /\ err' = r.err
        /\ pc' = IF r.err = "none" THEN "single" ELSE "raised"
    /\ UNCHANGED <<layer, startnr, order_rel, features, fvars, dvars>>

\* for branch in branches[singlepoint]: order[groupbyvalues.index(branch)] = 0
\* groupbyvalues is a pandas Series: its .index is the Index object, which is
\* not callable, so the first iteration raises TypeError.
SetSingle ==
    /\ pc = "single"
    /\ IF SinglePoint(layer) # {}
       THEN err' = "TypeError" /\ pc' = "raised"
       ELSE err' = err /\ pc' = "fields"
    /\ UNCHANGED <<layer, lines, startnr, order_rel, reported, features, fvars, dvars>>

Fields ==
    /\ pc = "fields"
    /\ features' = ReadFields(layer, startnr, lines)
    /\ pc' = "done"
    /\ UNCHANGED <<layer, lines, startnr, order_rel, reported, err, fvars, dvars>>

GNext == Prepare \/ Assign \/ Group \/ SetSingle \/ Fields

SpecGroup == GInit /\ [][GNext]_vars

\* ------------------------------------------------------------------ ExtendedGeoDataFrame
\* A frame is [cols, rows, name]. A row is [label, id, has, geo]: its index
\* label, the identity of its attribute values (the value it holds in column
\* c is the pair (c, id)), the columns in which it holds a value (NaN in the
\* others) and its geometry [type, at]. A label is [src, n]: position n of a
\* default index (src "index"), the value (src, n) of column src, or NaN.
ColNames == {"code", "name"}
GeoTypes == {"Point", "LineString"}
Locs == {1, 2}
\* geometries of the rows handed to set_data: a point at location 1 and a
\* line at location 2 (a clip geometry covers any subset of the locations)
Geoms == {[type |-> "Point", at |-> 1], [type |-> "LineString", at |-> 2]}

PosLabel(k) == [src |-> "index", n |-> k - 1]
NaNLabel == [src |-> "NaN", n |-> 0]

\* value of column c in row r, as an index label
ColLabel(r, c) == IF c \in r.has THEN [src |-> c, n |-> r.id] ELSE NaNLabel

\* the GeoDataFrames handed to set_data: a default index, a geometry column,
\* none, the first or both of the attribute columns, rows 1..n
GeoInput(c, g) ==
    [cols |-> c \cup {"geometry"},
     rows |-> [k \in 1..Len(g) |->
                 [label |-> PosLabel(k), id |-> k, has |-> c \cup {"geometry"},
                  geo |-> g[k]]],
     name |-> "None"]

GeoInputs ==
    {GeoInput(c, g) : c \in {{}, {"code"}, {"code", "name"}},
                      g \in UNION {[1..n -> Geoms] : n \in 0..MaxFrameRows}}

\* index_col: not given, or the column "name"
IndexCols == {"None", "name"}

\* geometry arguments of clip: the type and the locations it covers
ClipGeoms == [type : {"Polygon", "MultiPolygon", "LineString"}, covers : SUBSET Locs]

\* if not self.empty: self.iloc[:, 0] = np.nan; self.dropna(inplace=True)
DeleteAllRows(rows) == <<>>

\* _check_columns: some required column is not among the present columns
CheckColumnsNever(required, present) == FALSE

CheckColumnsFails(required, present) == \E column \in required : column \notin present

\* _check_geotype: not all(isinstance(geo, self.geotype) for geo in self.geometry)
CheckGeotypeFails(rows) == \E k \in 1..Len(rows) : rows[k].geo.type # GeoType

\* for col, values in gdf.items(): self[col] = values.values
\* (the emptied frame takes a default index of the length of the values)
CopyContent(f, gdf) ==
    [cols |-> f.cols \cup gdf.cols,
     rows |-> [k \in 1..Len(gdf.rows) |-> [gdf.rows[k] EXCEPT !.label = PosLabel(k)]],
     name |-> f.name]

\* self.index = gdf.index / self.index = gdf[index_col], and the index name
SetIndex(f, gdf, index_col) ==
    IF index_col = "None"
    THEN [f EXCEPT !.rows = [k \in 1..Len(gdf.rows) |->
                                [f.rows[k] EXCEPT !.label = gdf.rows[k].label]],
                   !.name = gdf.name]
    ELSE [f EXCEPT !.rows = [k \in 1..Len(gdf.rows) |->
                                [f.rows[k] EXCEPT !.label = ColLabel(gdf.rows[k], index_col)]],
                   !.name = index_col]

\* ExtendedGeoDataFrame.set_data: the frame it leaves and how it ends
GeoSetData(f, gdf, index_col, check_columns, check_geotype) ==
    LET emptied == [f EXCEPT !.rows = DeleteAllRows(f.rows)]
        copied == CopyContent(emptied, gdf)
        indexed == SetIndex(copied, gdf, index_col)
    IN  IF check_columns /\ CheckColumnsFails(RequiredColumns, gdf.cols)
        THEN [frame |-> emptied, res |-> "KeyError"]
        ELSE IF index_col # "None" /\ index_col \notin gdf.cols
        THEN [frame |-> copied, res |-> "KeyError"]
        ELSE IF check_geotype /\ CheckGeotypeFails(indexed.rows)
        THEN [frame |-> indexed, res |-> "TypeError"]
        ELSE [frame |-> indexed, res |-> "ok"]

\* self.intersects(geometry)
Intersects(row, geometry) == row.geo.at \in geometry.covers

IntersectingAll(rows, geometry) == rows

\* self.loc[self.intersects(geometry).values]
Intersecting(rows, geometry) == SelectSeq(rows, LAMBDA r : Intersects(r, geometry))

\* ExtendedGeoDataFrame.clip; self.intersects needs the geometry column, which
\* the frame has once data was copied into it
GeoClip(f, geometry) ==
    IF geometry.type \notin {"Polygon", "MultiPolygon"}
    THEN [frame |-> f, res |-> "TypeError"]
    ELSE IF "geometry" \notin f.cols
    THEN [frame |-> f, res |-> "AttributeError"]
    ELSE LET gdf == [cols |-> f.cols, rows |-> Intersecting(f.rows, geometry),
                     name |-> f.name]
         IN  IF gdf.rows = <<>>
             THEN [frame |-> f, res |-> "ValueError"]
             ELSE GeoSetData(f, gdf, "None", TRUE, TRUE)

Frame == [cols |-> gcols, rows |-> grows, name |-> gname]

Becomes(r) ==
    /\ gcols' = r.frame.cols
    /\ grows' = r.frame.rows
    /\ gname' = r.frame.name
    /\ gres' = r.res

SetData(gdf, index_col, check_columns, check_geotype) ==
    /\ Becomes(GeoSetData(Frame, gdf, index_col, check_columns, check_geotype))
    /\ gcall' = [op |-> "set_data", gdf |-> gdf, index_col |-> index_col,
                 check_columns |-> check_columns, check_geotype |-> check_geotype,
                 had |-> grows # <<>>]
    /\ UNCHANGED <<gvars, dvars>>

Clip(geometry) ==
    /\ Becomes(GeoClip(Frame, geometry))
    /\ gcall' = [op |-> "clip", geometry |-> geometry, before |-> grows,
                 hadgeometry |-> "geometry" \in gcols]
    /\ UNCHANGED <<gvars, dvars>>

DeleteAll ==
    /\ grows' = DeleteAllRows(grows)
    /\ gres' = "ok"
    /\ gcall' = [op |-> "delete_all", before |-> grows]
    /\ UNCHANGED <<gcols, gname, gvars, dvars>>

SetDataAny ==
    \E gdf \in GeoInputs, index_col \in IndexCols, cc \in BOOLEAN, cg \in BOOLEAN :
        SetData(gdf, index_col, cc, cg)

SetDataChecked ==
    \E gdf \in GeoInputs, index_col \in IndexCols, cc \in BOOLEAN :
        SetData(gdf, index_col, cc, TRUE)

ClipAny == \E geometry \in ClipGeoms : Clip(geometry)

FNext == SetDataAny \/ ClipAny \/ DeleteAll

SpecGeo == FInit /\ [][FNext]_vars

\* set_data is only called with check_geotype=True
FNextChecked == SetDataChecked \/ ClipAny \/ DeleteAll

SpecGeoChecked == FInit /\ [][FNextChecked]_vars

\* ------------------------------------------------------------------ ExtendedDataFrame
\* A row is [label, id, has], as above without geometry.
\* the DataFrames handed to set_data and add_data: a default index that may
\* carry a name that is no column, at least one column, rows 1..n
DfInput(c, n, name) ==
    [cols |-> c,
     rows |-> [k \in 1..n |-> [label |-> PosLabel(k), id |-> k, has |-> c]],
     name |-> name]

DfInputs ==
    {DfInput(c, n, name) : c \in (SUBSET ColNames) \ {{}}, n \in 0..MaxFrameRows,
                           name \in {"None", "fid"}}

DfIndexCols == {"None"} \cup ColNames

\* ExtendedDataFrame.set_data: _check_columns looks at the frame's own columns
\* after the content was copied
DfSetData(f, df, index_col) ==
    LET emptied == [f EXCEPT !.rows = DeleteAllRows(f.rows)]
        copied == CopyContent(emptied, df)
        indexed == SetIndex(copied, df, index_col)
    IN  IF index_col # "None" /\ index_col \notin df.cols
        THEN [frame |-> copied, res |-> "KeyError"]
        ELSE IF CheckColumnsFails(DfRequiredColumns, indexed.cols)
        THEN [frame |-> indexed, res |-> "KeyError"]
        ELSE [frame |-> indexed, res |-> "ok"]

ConcatReversed(current, df) ==
    [cols |-> current.cols \cup df.cols,
     rows |-> df.rows \o current.rows,
     name |-> IF current.name = df.name THEN current.name ELSE "None"]

\* pd.concat([current, df], ignore_index=False, sort=False)
Concat(current, df) ==
    [cols |-> current.cols \cup df.cols,
     rows |-> current.rows \o df.rows,
     name |-> IF current.name = df.name THEN current.name ELSE "None"]

\* ExtendedDataFrame.add_data
DfAddData(f, df) ==
    IF ~(df.cols \subseteq f.cols)
    THEN [frame |-> f, res |-> "KeyError"]
    ELSE LET newdf == Concat(f, df)
             emptied == [f EXCEPT !.rows = DeleteAllRows(f.rows)]
         IN  DfSetData(emptied, newdf, f.name)

DFrame == [cols |-> dcols, rows |-> drows, name |-> dname]

DfBecomes(r) ==
    /\ dcols' = r.frame.cols
    /\ drows' = r.frame.rows
    /\ dname' = r.frame.name
    /\ dres' = r.res

DfSet(df, index_col) ==
    /\ DfBecomes(DfSetData(DFrame, df, index_col))
    /\ dcall' = [op |-> "set_data", df |-> df, index_col |-> index_col]
    /\ UNCHANGED <<gvars, fvars>>

DfAdd(df) ==
    /\ Len(drows) + Len(df.rows) <= MaxTotalRows
    /\ DfBecomes(DfAddData(DFrame, df))
    /\ dcall' = [op |-> "add_data", df |-> df, before |-> drows, cols |-> dcols]
    /\ UNCHANGED <<gvars, fvars>>

DfDeleteAll ==
    /\ drows' = DeleteAllRows(drows)
    /\ dres' = "ok"
    /\ dcall' = [op |-> "delete_all"]
    /\ UNCHANGED <<dcols, dname, gvars, fvars>>

DfSetAny == \E df \in DfInputs, index_col \in DfIndexCols : DfSet(df, index_col)

DfAddAny == \E df \in DfInputs : DfAdd(df)

DNext == DfSetAny \/ DfAddAny \/ DfDeleteAll

SpecDf == FInit /\ [][DNext]_vars

\* ------------------------------------------------------------------ claims on the grouping
\* the order values of branch b's rows are pairwise distinct
Distinct(tab, b) ==
    \A i, j \in 1..Len(tab) :
        (i # j /\ tab[i].branch = b /\ tab[j].branch = b) => tab[i].volgnr # tab[j].volgnr

AllDistinct(tab) == \A b \in branchesOf(tab) : Distinct(tab, b)

\* s holds exactly the points of branch b, each once, in ascending order value
IsOrderedLine(tab, b, s) ==
    /\ Len(s) = Cardinality({i \in 1..Len(tab) : tab[i].branch = b})
    /\ {s[k] : k \in 1..Len(s)} = {i \in 1..Len(tab) : tab[i].branch = b}
    /\ \A k \in 1..(Len(s) - 1) : tab[s[k]].volgnr < tab[s[k + 1]].volgnr

MinOrder(tab, b) ==
    CHOOSE m \in {tab[i].volgnr : i \in {j \in 1..Len(tab) : tab[j].branch = b}} :
        \A i \in 1..Len(tab) : tab[i].branch = b => m <= tab[i].volgnr

\* the grouping loop (lines 288-296) has run to its end
Grouped == pc \in {"single", "fields", "done"} \/ (pc = "raised" /\ err = "TypeError")

\* C1: when the order values are distinct within each branch, no position is
\* out of range, and once the lines are grouped the line of every branch with
\* at least two points holds exactly that branch's points, each once, in
\* ascending order value, and the branch is not flagged.
C1_LinesInOrder ==
    AllDistinct(layer) =>
        /\ err \notin {"IndexError", "LineStringError"}
        /\ Grouped =>
              \A b \in branchesOf(layer) :
                  countOf(layer, b) >= 2 =>
                      IsOrderedLine(layer, b, lines[b]) /\ b \notin reported

\* a branch whose numbering starts above 1, has a gap, and whose rows are not
\* in order in the table, has been grouped and the call has completed
C1_Witness ==
    /\ pc = "done"
    /\ AllDistinct(layer)
    /\ \E b \in branchesOf(layer) :
          /\ countOf(layer, b) >= 2
          /\ lines[b][1] > lines[b][2]
          /\ layer[lines[b][1]].volgnr > 1
          /\ layer[lines[b][2]].volgnr > layer[lines[b][1]].volgnr + 1

\* C2: when every branch has at least two points with distinct order values,
\* startnr is the smallest order value of each branch and the result holds
\* exactly one feature per branch, read at the row that carries the smallest
\* order value, with the branch's line as geometry.
C2_OneFeaturePerBranch ==
    (\A b \in branchesOf(layer) : countOf(layer, b) >= 2 /\ Distinct(layer, b)) =>
        /\ pc # "prepare" =>
              \A b \in branchesOf(layer) : startnr[b] = MinOrder(layer, b)
        /\ pc = "done" =>
              \A b \in branchesOf(layer) :
                  /\ Cardinality({k \in 1..Len(features) : features[k].branch = b}) = 1
                  /\ \A k \in 1..Len(features) :
                        features[k].branch = b =>
                            /\ layer[features[k].row].volgnr = MinOrder(layer, b)
                            /\ features[k].geometry = lines[b]

\* C3 (stated for tables whose order values are distinct within each branch):
\* with a single-point branch in the table the call completes, no feature is
\* built for that branch and every branch with two or more points has one.
C3_SinglePointNotLoaded ==
    (AllDistinct(layer) /\ SinglePoint(layer) # {}) =>
        /\ pc # "raised"
        /\ pc = "done" =>
              \A b \in branchesOf(layer) :
                  (b \in SinglePoint(layer))
                      <=> (\A k \in 1..Len(features) : features[k].branch # b)

\* C4: once the grouping loop has run, every branch with at least two points
\* of which two share an order value has been reported, and no placeholder
\* remains in the line of a branch with at least two points.
C4_MalformedFlagged ==
    pc \in {"single", "fields", "done"} =>
        \A b \in branchesOf(layer) :
            countOf(layer, b) >= 2 =>
                /\ ~Distinct(layer, b) => b \in reported
                /\ ~HasPlaceholder(lines[b])

\* C8: order_rel has one entry per row, no position is out of range, and the
\* line of a branch with distinct order values is that branch's points in
\* ascending order whatever the other branches hold.
C8_BranchesIndependent ==
    /\ pc # "prepare" => Len(order_rel) = Len(layer)
    /\ err # "IndexError"
    /\ Grouped =>
          \A b \in branchesOf(layer) :
              (countOf(layer, b) >= 2 /\ Distinct(layer, b)) =>
                  IsOrderedLine(layer, b, lines[b])

\* C8, second part alone: the line of a branch with distinct order values is
\* in order whatever the other branches hold (fails on (1,0),(1,0),(2,1),(2,0))
C8_OtherBranchKept ==
    Grouped =>
        \A b \in branchesOf(layer) :
            (countOf(layer, b) >= 2 /\ Distinct(layer, b)) =>
                IsOrderedLine(layer, b, lines[b])

\* C8, third part alone: no position is out of range (fails on (1,0),(2,0),(1,0))
C8_NoIndexError == err # "IndexError"

\* every line of two or more rows can be built (fails on (1,0),(2,0),(1,0),(2,0))
C8_LineStringBuilt == err # "LineStringError"

\* ------------------------------------------------------------------ claims on ExtendedGeoDataFrame
\* the frame's rows are the rows of gdf, in order, with the labels of gdf's
\* index (index_col not given) or the values of column index_col
HoldsInput(rows, gdf, index_col) ==
    /\ Len(rows) = Len(gdf.rows)
    /\ \A k \in 1..Len(rows) :
        /\ rows[k].id = gdf.rows[k].id
        /\ rows[k].has = gdf.rows[k].has
        /\ rows[k].geo = gdf.rows[k].geo
        /\ rows[k].label = IF index_col = "None" THEN gdf.rows[k].label
                           ELSE [src |-> index_col, n |-> gdf.rows[k].id]

RequiredMissing(gdf) == ~(RequiredColumns \subseteq gdf.cols)

IndexColMissing(gdf, index_col) == index_col # "None" /\ index_col \notin gdf.cols

\* C5 (as stated): set_data with check_columns=True raises KeyError exactly
\* when a required column is absent from the input, and when it returns
\* normally the frame holds exactly the input's rows under the index asked for.
C5_KeyErrorIffRequiredMissing ==
    (gcall.op = "set_data" /\ gcall.check_columns) =>
        /\ (gres = "KeyError") <=> RequiredMissing(gcall.gdf)
        /\ gres = "ok" => HoldsInput(grows, gcall.gdf, gcall.index_col)

\* C5 (amended): set_data with check_columns=True raises KeyError exactly
\* when a required column is absent from the input or index_col is given and
\* is no column of the input; when it returns normally the frame holds
\* exactly the input's rows under the index asked for.
C5_KeyErrorIffColumnMissing ==
    (gcall.op = "set_data" /\ gcall.check_columns) =>
        /\ (gres = "KeyError") <=>
              (RequiredMissing(gcall.gdf) \/ IndexColMissing(gcall.gdf, gcall.index_col))
        /\ gres = "ok" => HoldsInput(grows, gcall.gdf, gcall.index_col)

\* set_data(check_columns=True, index_col="name") returned normally on a frame
\* that held rows, and left the two rows of its input
C5_Witness ==
    /\ gcall.op = "set_data"
    /\ gcall.check_columns
    /\ gcall.had
    /\ gcall.index_col = "name"
    /\ gres = "ok"
    /\ Len(grows) = 2

\* rows is what is left of before when the rows that do not intersect
\* geometry are struck out
IsClipOf(rows, before, geometry) ==
    LET keep == {i \in 1..Len(before) : before[i].geo.at \in geometry.covers}
    IN  /\ Len(rows) = Cardinality(keep)
        /\ \A i \in keep : rows[Cardinality({j \in keep : j <= i})] = before[i]

ValidClipGeometry(geometry) == geometry.type \in {"Polygon", "MultiPolygon"}

NoneIntersects(before, geometry) ==
    \A i \in 1..Len(before) : before[i].geo.at \notin geometry.covers

\* C6 (as stated): clip raises TypeError for a geometry that is no
\* (Multi)Polygon and ValueError when no feature intersects, leaving the rows
\* as they were; otherwise the frame holds exactly the intersecting features,
\* labels and values unchanged, in their original order.
C6_ClipAsStated ==
    gcall.op = "clip" =>
        /\ ~ValidClipGeometry(gcall.geometry) =>
              gres = "TypeError" /\ grows = gcall.before
        /\ (ValidClipGeometry(gcall.geometry)
                /\ NoneIntersects(gcall.before, gcall.geometry)) =>
              gres = "ValueError" /\ grows = gcall.before
        /\ (ValidClipGeometry(gcall.geometry)
                /\ ~NoneIntersects(gcall.before, gcall.geometry)) =>
              IsClipOf(grows, gcall.before, gcall.geometry)

\* C6 (amended): as stated, except that on a frame that has no geometry
\* column yet (no data was ever copied into it) a clip with a (Multi)Polygon
\* raises AttributeError instead of ValueError, the rows again unchanged.
C6_Clip ==
    gcall.op = "clip" =>
        /\ ~ValidClipGeometry(gcall.geometry) =>
              gres = "TypeError" /\ grows = gcall.before
        /\ (ValidClipGeometry(gcall.geometry) /\ ~gcall.hadgeometry) =>
              gres = "AttributeError" /\ grows = gcall.before
        /\ (ValidClipGeometry(gcall.geometry) /\ gcall.hadgeometry
                /\ NoneIntersects(gcall.before, gcall.geometry)) =>
              gres = "ValueError" /\ grows = gcall.before
        /\ (ValidClipGeometry(gcall.geometry)
                /\ ~NoneIntersects(gcall.before, gcall.geometry)) =>
              IsClipOf(grows, gcall.before, gcall.geometry)

\* a clip returned normally, struck out one of two features and kept the
\* other under the label it had from column "name"
C6_Witness ==
    /\ gcall.op = "clip"
    /\ gres = "ok"
    /\ Len(gcall.before) = 2
    /\ Len(grows) = 1
    /\ grows[1].label.src = "name"
    /\ grows[1].id = 2

\* C9: every geometry held by the frame is an instance of the frame's geotype
C9_GeotypeInvariant == \A k \in 1..Len(grows) : grows[k].geo.type = GeoType

\* ------------------------------------------------------------------ claims on ExtendedDataFrame
\* the attribute values of a row
RowData(r) == [id |-> r.id, has |-> r.has]

DataOf(rows) == [k \in 1..Len(rows) |-> RowData(rows[k])]

\* C7: add_data raises KeyError and leaves the frame as it was when df has a
\* column the frame lacks; otherwise the rows after the call are the rows held
\* before followed by the rows of df, so the row count grows by that of df.
C7_AddAppends ==
    dcall.op = "add_data" =>
        IF \E c \in dcall.df.cols : c \notin dcall.cols
        THEN dres = "KeyError" /\ drows = dcall.before /\ dcols = dcall.cols
        ELSE /\ DataOf(drows) = DataOf(dcall.before) \o DataOf(dcall.df.rows)
             /\ Len(drows) = Len(dcall.before) + Len(dcall.df.rows)
             /\ \A k \in 1..Len(dcall.before) : RowData(drows[k]) = RowData(dcall.before[k])

\* add_data returned normally on a frame that held rows, with a df that has
\* rows and lacks one of the frame's columns
C7_Witness ==
    /\ dcall.op = "add_data"
    /\ dres = "ok"
    /\ Len(dcall.before) >= 2
    /\ Len(dcall.df.rows) >= 1
    /\ dcall.df.cols # dcols
    /\ Len(drows) = Len(dcall.before) + Len(dcall.df.rows)

====
